---- MODULE Spec2Model ----
(***************************************************************************)
(* Model of foxtrot's Hull (src/src/hull.rs): a circular doubly linked     *)
(* list of points ordered by pseudo-angle, indexed by a bucket table.      *)
(*                                                                         *)
(* A hull value is a record [buckets, data, status].  buckets and data are *)
(* the two fields of struct Hull; status records how the last call ended:  *)
(* "ok" (it returned), "panic:L" (the assert! or the index expression at   *)
(* line L of hull.rs failed, as Rust's panic message reports it) or        *)
(* "hang:L" (the loop at line L never ends).  Every method is an operator  *)
(* from a hull value to a hull value, computed statement by statement as   *)
(* in the source, so that a panic in the middle of a method keeps the      *)
(* writes made before it.                                                  *)
(*                                                                         *)
(* Angles are the rationals a / MaxAngle for a in 0..MaxAngle (the range   *)
(* [0, 1] of pseudo_angle); the bucket table has N slots, scaled down from *)
(* the source's 1 << 10.                                                   *)
(***************************************************************************)
EXTENDS Integers, Sequences, FiniteSets, TLC

\* Number of points handed to Hull::new (the length of data).
NumPts == 4
\* Angles are a / MaxAngle, a \in 0..MaxAngle.
MaxAngle == 2
\* Number of buckets (hull.rs:4 has 1 << 10; scaled down).
N == 2
\* Edge indices a caller passes are 1..MaxEdge.
MaxEdge == 2

\* EdgeIndex::default(), the edge of a node that was never inserted.
DefaultEdge == 0

PointIndex == 0 .. (NumPts - 1)
\* const EMPTY: usize::MAX, an index past the end of every array.
EMPTY == NumPts
EdgeIndex == 1 .. MaxEdge
Angles == 0 .. MaxAngle
BucketIndex == 0 .. (N - 1)

Node == [angle : Angles, edge : EdgeIndex \cup {DefaultEdge},
         prev : PointIndex \cup {EMPTY}, next : PointIndex \cup {EMPTY}]

\* buckets, data: the fields of struct Hull.  status: how the last call
\* ended.  last: the last method that was called to write to the hull.
VARIABLES buckets, data, status, last

\* The program's Surface and the two lists it works on.  surface: the
\* Surface value ([kind |-> "None"] when the program has none); verts: the
\* caller's vertex list; pts: the caller's list of 2D points; ret: what
\* the last call of a Surface method returned; trace: the calls of prepare
\* and lower that the last lower_verts made; calls: the Surface methods
\* called so far.
VARIABLES surface, verts, pts, ret, trace, calls

surface_vars == <<surface, verts, pts, ret, trace, calls>>

\* The bytes of the EXPRESS file the program holds (the argument data of
\* strip_flatten), and what strip_flatten returned for them: <<>> before
\* the call, <<out>> after it.
VARIABLES input, flat

express_vars == <<input, flat>>

vars ==
    <<buckets, data, status, last, surface, verts, pts, ret, trace, calls,
      input, flat>>

\* The hull the program holds.
Hull == [buckets |-> buckets, data |-> data, status |-> status]

\* self.data[i] is in bounds
InBounds(i) == i \in PointIndex

\* The call stops the program with status st.
Stop(h, st) == [h EXCEPT !.status = st]

\* fn bucket: (angle * (buckets.len() - 1)).round() as usize, with
\* angle = a / MaxAngle and f64::round rounding half away from zero.
bucket(h, p) ==
    (2 * h.data[p].angle * (N - 1) + MaxAngle) \div (2 * MaxAngle)

\* Hull::new: every node unlinked, every bucket EMPTY.
new(angle) ==
    [buckets |-> [b \in BucketIndex |-> EMPTY],
     data |-> [p \in PointIndex |->
                 [angle |-> angle[p], edge |-> DefaultEdge,
                  prev |-> EMPTY, next |-> EMPTY]],
     status |-> "ok"]

\* insert_first without the line `self.data[p.0].prev = p`.
insert_first_no_prev(h, p, e) ==
    LET b == bucket(h, p) IN
    IF h.buckets[b] # EMPTY THEN Stop(h, "panic:66")
    ELSE [h EXCEPT !.buckets[b] = p,
                   !.data[p].next = p,
                   !.data[p].edge = e]

\* Hull::insert_first
insert_first(h, p, e) ==
    LET b == bucket(h, p) IN
    IF h.buckets[b] # EMPTY THEN Stop(h, "panic:66")
    ELSE [h EXCEPT !.buckets[b] = p,
                   !.data[p].next = p,
                   !.data[p].prev = p,
                   !.data[p].edge = e]

\* update that stores the edge on p's predecessor instead of on p.
update_writes_prev(h, p, e) ==
    IF h.data[p].next = EMPTY THEN Stop(h, "panic:78")
    ELSE [h EXCEPT !.data[h.data[p].prev].edge = e]

\* update without the assert! of line 78.
update_no_assert(h, p, e) ==
    [h EXCEPT !.data[p].edge = e]

\* Hull::update
update(h, p, e) ==
    IF h.data[p].next = EMPTY THEN Stop(h, "panic:78")
    ELSE [h EXCEPT !.data[p].edge = e]

\* The scan of Hull::get for the next filled bucket: t = (t + 1) % N while
\* buckets[t] is EMPTY.  k counts the slots already tried; after N empty
\* slots the scan is back where it started and never ends.
RECURSIVE ScanBuckets(_, _, _)
ScanBuckets(h, t, k) ==
    IF k = N THEN EMPTY
    ELSE IF h.buckets[t] # EMPTY THEN h.buckets[t]
    ELSE ScanBuckets(h, (t + 1) % N, k + 1)

\* The in-bucket walk without the test self.bucket(pos) == b of line 109.
RECURSIVE WalkBucket_any_bucket(_, _, _, _, _, _)
WalkBucket_any_bucket(h, p, b, start, pos, fuel) ==
    IF ~InBounds(pos) THEN [st |-> "panic:108", pos |-> pos]
    ELSE IF fuel = 0 THEN [st |-> "hang:108", pos |-> pos]
    ELSE IF h.data[pos].angle < h.data[p].angle
         THEN LET nxt == h.data[pos].next IN
              IF nxt = start THEN [st |-> "ok", pos |-> nxt]
              ELSE WalkBucket_any_bucket(h, p, b, start, nxt, fuel - 1)
         ELSE [st |-> "ok", pos |-> pos]

\* The in-bucket walk with <= for the < of line 108.
RECURSIVE WalkBucket_le(_, _, _, _, _, _)
WalkBucket_le(h, p, b, start, pos, fuel) ==
    IF ~InBounds(pos) THEN [st |-> "panic:108", pos |-> pos]
    ELSE IF fuel = 0 THEN [st |-> "hang:108", pos |-> pos]
    ELSE IF h.data[pos].angle <= h.data[p].angle /\ bucket(h, pos) = b
         THEN LET nxt == h.data[pos].next IN
              IF nxt = start THEN [st |-> "ok", pos |-> nxt]
              ELSE WalkBucket_le(h, p, b, start, nxt, fuel - 1)
         ELSE [st |-> "ok", pos |-> pos]

\* The in-bucket walk of Hull::get, from pos, with the loop condition
\* evaluated at pos.  Result: [st, pos].  fuel bounds the walk: a walk of
\* more than NumPts steps never meets start again.
RECURSIVE WalkBucket(_, _, _, _, _, _)
WalkBucket(h, p, b, start, pos, fuel) ==
    IF ~InBounds(pos) THEN [st |-> "panic:108", pos |-> pos]
    ELSE IF fuel = 0 THEN [st |-> "hang:108", pos |-> pos]
    ELSE IF h.data[pos].angle < h.data[p].angle /\ bucket(h, pos) = b
         THEN LET nxt == h.data[pos].next IN
              IF nxt = start THEN [st |-> "ok", pos |-> nxt]
              ELSE WalkBucket(h, p, b, start, nxt, fuel - 1)
         ELSE [st |-> "ok", pos |-> pos]

\* Hull::get.  Result: [st, prev, next]; prev and next mean something only
\* when st = "ok".
get(h, p) ==
    LET b == bucket(h, p)
        first == h.buckets[b]
        found == IF first = EMPTY
                 THEN LET s == ScanBuckets(h, b, 0) IN
                      IF s = EMPTY THEN [st |-> "hang:96", pos |-> EMPTY]
                      ELSE [st |-> "ok", pos |-> s]
                 ELSE WalkBucket(h, p, b, first, first, NumPts + 1)
    IN  IF found.st # "ok"
        THEN [st |-> found.st, prev |-> EMPTY, next |-> EMPTY]
        ELSE [st |-> "ok", prev |-> h.data[found.pos].prev, next |-> found.pos]

\* Hull::edge.  Result: [st, edge].
edge(h, p) ==
    IF ~InBounds(p) \/ h.data[p].next = EMPTY
    THEN [st |-> "panic:140", edge |-> DefaultEdge]
    ELSE [st |-> "ok", edge |-> h.data[p].edge]

\* Hull::get_edge.  Result: [st, edge].
get_edge(h, p) ==
    LET g == get(h, p) IN
    IF g.st # "ok" THEN [st |-> g.st, edge |-> DefaultEdge]
    ELSE IF ~InBounds(g.prev) THEN [st |-> "panic:130", edge |-> DefaultEdge]
    ELSE [st |-> "ok", edge |-> h.data[g.prev].edge]

\* Hull::prev_edge.  Result: [st, edge].
prev_edge(h, p) ==
    IF h.data[p].prev = EMPTY THEN [st |-> "panic:134", edge |-> DefaultEdge]
    ELSE edge(h, h.data[p].prev)

\* insert that takes the angle of next for the new node.
insert_copies_angle(h, p, e) ==
    IF h.data[p].next # EMPTY THEN Stop(h, "panic:146")
    ELSE
    LET b == bucket(h, p)
        g == get(h, p)
    IN  IF g.st # "ok" THEN Stop(h, g.st)
        ELSE
        LET h1 == IF h.buckets[b] = EMPTY
                     \/ (h.buckets[b] = g.next
                         /\ h.data[p].angle < h.data[g.next].angle)
                  THEN [h EXCEPT !.buckets[b] = p]
                  ELSE h
            h2 == [h1 EXCEPT !.data[p].edge = e,
                             !.data[p].angle = h.data[g.next].angle,
                             !.data[p].next = g.next,
                             !.data[p].prev = g.prev]
            h3 == [h2 EXCEPT !.data[g.next].prev = p]
        IN  IF ~InBounds(g.prev) THEN Stop(h3, "panic:165")
            ELSE [h3 EXCEPT !.data[g.prev].next = p]

\* insert without the assert! of line 146.
insert_no_assert(h, p, e) ==
    LET b == bucket(h, p)
        g == get(h, p)
    IN  IF g.st # "ok" THEN Stop(h, g.st)
        ELSE
        LET h1 == IF h.buckets[b] = EMPTY
                     \/ (h.buckets[b] = g.next
                         /\ h.data[p].angle < h.data[g.next].angle)
                  THEN [h EXCEPT !.buckets[b] = p]
                  ELSE h
            h2 == [h1 EXCEPT !.data[p].edge = e,
                             !.data[p].next = g.next,
                             !.data[p].prev = g.prev]
            h3 == [h2 EXCEPT !.data[g.next].prev = p]
        IN  IF ~InBounds(g.prev) THEN Stop(h3, "panic:165")
            ELSE [h3 EXCEPT !.data[g.prev].next = p]

\* Hull::insert
insert(h, p, e) ==
    IF h.data[p].next # EMPTY THEN Stop(h, "panic:146")
    ELSE
    LET b == bucket(h, p)
        g == get(h, p)
    IN  IF g.st # "ok" THEN Stop(h, g.st)
        ELSE
        LET h1 == IF h.buckets[b] = EMPTY
                     \/ (h.buckets[b] = g.next
                         /\ h.data[p].angle < h.data[g.next].angle)
                  THEN [h EXCEPT !.buckets[b] = p]
                  ELSE h
            h2 == [h1 EXCEPT !.data[p].edge = e,
                             !.data[p].next = g.next,
                             !.data[p].prev = g.prev]
            h3 == [h2 EXCEPT !.data[g.next].prev = p]
        IN  IF ~InBounds(g.prev) THEN Stop(h3, "panic:165")
            ELSE [h3 EXCEPT !.data[g.prev].next = p]

\* erase that promotes next to bucket head without the test of line 185.
erase_promotes_next(h, p) ==
    LET b == bucket(h, p)
        next == h.data[p].next
        prev == h.data[p].prev
    IN  IF ~InBounds(next) THEN Stop(h, "panic:176")
        ELSE
        LET h1 == [h EXCEPT !.data[next].prev = prev] IN
        IF ~InBounds(prev) THEN Stop(h1, "panic:177")
        ELSE
        LET h2 == [h1 EXCEPT !.data[prev].next = next]
            h3 == [h2 EXCEPT !.data[p].next = EMPTY]
            h4 == [h3 EXCEPT !.data[p].prev = EMPTY]
        IN  IF h4.buckets[b] = p
            THEN [h4 EXCEPT !.buckets[b] = next]
            ELSE h4

\* erase with the line `self.data[prev.0].next = next` left out.
erase_keeps_prev_link(h, p) ==
    LET b == bucket(h, p)
        next == h.data[p].next
        prev == h.data[p].prev
    IN  IF ~InBounds(next) THEN Stop(h, "panic:176")
        ELSE
        LET h1 == [h EXCEPT !.data[next].prev = prev]
            h3 == [h1 EXCEPT !.data[p].next = EMPTY]
            h4 == [h3 EXCEPT !.data[p].prev = EMPTY]
        IN  IF h4.buckets[b] = p
            THEN IF bucket(h4, next) = b
                 THEN [h4 EXCEPT !.buckets[b] = next]
                 ELSE [h4 EXCEPT !.buckets[b] = EMPTY]
            ELSE h4

\* erase without the line `self.data[p.0].prev = EMPTY`.
erase_keeps_own_prev(h, p) ==
    LET b == bucket(h, p)
        next == h.data[p].next
        prev == h.data[p].prev
    IN  IF ~InBounds(next) THEN Stop(h, "panic:176")
        ELSE
        LET h1 == [h EXCEPT !.data[next].prev = prev] IN
        IF ~InBounds(prev) THEN Stop(h1, "panic:177")
        ELSE
        LET h2 == [h1 EXCEPT !.data[prev].next = next]
            h4 == [h2 EXCEPT !.data[p].next = EMPTY]
        IN  IF h4.buckets[b] = p
            THEN IF bucket(h4, next) = b
                 THEN [h4 EXCEPT !.buckets[b] = next]
                 ELSE [h4 EXCEPT !.buckets[b] = EMPTY]
            ELSE h4

\* erase that also resets the edge of p to EdgeIndex::default().
erase_resets_edge(h, p) ==
    LET b == bucket(h, p)
        next == h.data[p].next
        prev == h.data[p].prev
    IN  IF ~InBounds(next) THEN Stop(h, "panic:176")
        ELSE
        LET h1 == [h EXCEPT !.data[next].prev = prev] IN
        IF ~InBounds(prev) THEN Stop(h1, "panic:177")
        ELSE
        LET h2 == [h1 EXCEPT !.data[prev].next = next]
            h3 == [h2 EXCEPT !.data[p].next = EMPTY]
            h4 == [h3 EXCEPT !.data[p].prev = EMPTY, !.data[p].edge = DefaultEdge]
        IN  IF h4.buckets[b] = p
            THEN IF bucket(h4, next) = b
                 THEN [h4 EXCEPT !.buckets[b] = next]
                 ELSE [h4 EXCEPT !.buckets[b] = EMPTY]
            ELSE h4

\* erase that returns at once when p has no next.
erase_ignores_nonmember(h, p) ==
    LET b == bucket(h, p)
        next == h.data[p].next
        prev == h.data[p].prev
    IN  IF ~InBounds(next) THEN h
        ELSE
        LET h1 == [h EXCEPT !.data[next].prev = prev] IN
        IF ~InBounds(prev) THEN Stop(h1, "panic:177")
        ELSE
        LET h2 == [h1 EXCEPT !.data[prev].next = next]
            h3 == [h2 EXCEPT !.data[p].next = EMPTY]
            h4 == [h3 EXCEPT !.data[p].prev = EMPTY]
        IN  IF h4.buckets[b] = p
            THEN IF bucket(h4, next) = b
                 THEN [h4 EXCEPT !.buckets[b] = next]
                 ELSE [h4 EXCEPT !.buckets[b] = EMPTY]
            ELSE h4

\* Hull::erase
erase(h, p) ==
    LET b == bucket(h, p)
        next == h.data[p].next
        prev == h.data[p].prev
    IN  IF ~InBounds(next) THEN Stop(h, "panic:176")
        ELSE
        LET h1 == [h EXCEPT !.data[next].prev = prev] IN
        IF ~InBounds(prev) THEN Stop(h1, "panic:177")
        ELSE
        LET h2 == [h1 EXCEPT !.data[prev].next = next]
            h3 == [h2 EXCEPT !.data[p].next = EMPTY]
            h4 == [h3 EXCEPT !.data[p].prev = EMPTY]
        IN  IF h4.buckets[b] = p
            THEN IF bucket(h4, next) = b
                 THEN [h4 EXCEPT !.buckets[b] = next]
                 ELSE [h4 EXCEPT !.buckets[b] = EMPTY]
            ELSE h4

\* The walk of Hull::values from point, having yielded out so far.
RECURSIVE ValuesWalk(_, _, _, _, _)
ValuesWalk(h, start, point, out, fuel) ==
    IF ~InBounds(point) THEN [st |-> "panic:211", out |-> out]
    ELSE IF fuel = 0 THEN [st |-> "hang:206", out |-> out]
    ELSE LET out1 == Append(out, h.data[point].edge)
             nxt == h.data[point].next
         IN  IF nxt = start THEN [st |-> "ok", out |-> out1]
             ELSE ValuesWalk(h, start, nxt, out1, fuel - 1)

\* Hull::values, collected.  Result: [st, out].
values(h) ==
    LET filled == {b \in BucketIndex : h.buckets[b] # EMPTY} IN
    IF filled = {} THEN [st |-> "panic:201", out |-> <<>>]
    ELSE LET b0 == CHOOSE b \in filled : \A c \in filled : b <= c
             start == h.buckets[b0]
         IN  ValuesWalk(h, start, start, <<>>, NumPts + 1)

-----------------------------------------------------------------------------
\* The members of the hull: the nodes with next != EMPTY.
Members(h) == {p \in PointIndex : h.data[p].next # EMPTY}

Set(h) ==
    /\ buckets' = h.buckets
    /\ data' = h.data
    /\ status' = h.status
    /\ UNCHANGED <<surface_vars, express_vars>>

\* A program that drives a hull holds no Surface.
NoSurface ==
    /\ surface = [kind |-> "None"]
    /\ verts = <<>>
    /\ pts = <<>>
    /\ ret = [tag |-> "new"]
    /\ trace = <<>>
    /\ calls = <<>>

\* A program that has read no EXPRESS file.
NoExpress ==
    /\ input = <<>>
    /\ flat = <<>>

\* Hull::new(center, pts) for any points.  No method compares two point
\* indices except for equality, so a hull is the same up to a renaming of
\* the points as the one built from the points sorted by angle, and the
\* driver inserts them in any order: Init takes the sorted inputs.
Init ==
    \E angle \in [PointIndex -> Angles] :
        /\ \A p, q \in PointIndex : p <= q => angle[p] <= angle[q]
        /\ buckets = new(angle).buckets
        /\ data = new(angle).data
        /\ status = new(angle).status
        /\ last = "new"
        /\ NoSurface
        /\ NoExpress

\* The calls, each a whole method.  A call is made only by a running
\* program (status = "ok").
InsertFirst(p, e) ==
    status = "ok" /\ last' = "insert_first" /\ Set(insert_first(Hull, p, e))
Update(p, e) ==
    status = "ok" /\ last' = "update" /\ Set(update(Hull, p, e))
Insert(p, e) ==
    status = "ok" /\ last' = "insert" /\ Set(insert(Hull, p, e))
Erase(p) ==
    status = "ok" /\ last' = "erase" /\ Set(erase(Hull, p))
\* The queries change nothing; they return or they stop the program.
Get(p) ==
    status = "ok" /\ status' = get(Hull, p).st /\ UNCHANGED <<buckets, data, last, surface_vars, express_vars>>
GetEdge(p) ==
    status = "ok" /\ status' = get_edge(Hull, p).st /\ UNCHANGED <<buckets, data, last, surface_vars, express_vars>>
PrevEdge(p) ==
    status = "ok" /\ status' = prev_edge(Hull, p).st /\ UNCHANGED <<buckets, data, last, surface_vars, express_vars>>
Edge(p) ==
    status = "ok" /\ status' = edge(Hull, p).st /\ UNCHANGED <<buckets, data, last, surface_vars, express_vars>>
Values ==
    status = "ok" /\ status' = values(Hull).st /\ UNCHANGED <<buckets, data, last, surface_vars, express_vars>>

\* A driver that keeps to the membership preconditions of section 4.1:
\* insert_first on a hull with no members, insert of a non-member,
\* erase/update/edge/prev_edge of a member, get/values on a hull with a
\* member.
CallInsertFirst ==
    \E p \in PointIndex, e \in EdgeIndex :
        Members(Hull) = {} /\ InsertFirst(p, e)
CallInsert ==
    \E p \in PointIndex, e \in EdgeIndex :
        p \notin Members(Hull) /\ Insert(p, e)
CallErase == \E p \in Members(Hull) : Erase(p)
CallUpdate == \E p \in Members(Hull), e \in EdgeIndex : Update(p, e)
CallGet == \E p \in PointIndex : Members(Hull) # {} /\ Get(p)
CallGetEdge == \E p \in PointIndex : Members(Hull) # {} /\ GetEdge(p)
CallPrevEdge == \E p \in Members(Hull) : PrevEdge(p)
CallEdge == \E p \in Members(Hull) : Edge(p)
CallValues == Members(Hull) # {} /\ Values

Next ==
    \/ CallInsertFirst
    \/ CallInsert
    \/ CallErase
    \/ CallUpdate
    \/ CallGet
    \/ CallGetEdge
    \/ CallPrevEdge
    \/ CallEdge
    \/ CallValues

Spec == Init /\ [][Next]_vars

\* A driver that keeps to the contract except for one call: any method on
\* any point.  A call outside the contract that returns all the same ends
\* the run with status "stopped": what follows a broken contract is not
\* followed.  (Only insert_first can return from such a call; every other
\* method panics or hangs.)
Stopped(h) == IF h.status = "ok" THEN Stop(h, "stopped") ELSE h

AnyInsertFirst ==
    \E p \in PointIndex, e \in EdgeIndex :
        /\ Members(Hull) # {}
        /\ status = "ok"
        /\ last' = "insert_first"
        /\ Set(Stopped(insert_first(Hull, p, e)))
AnyInsert == \E p \in Members(Hull), e \in EdgeIndex : Insert(p, e)
AnyErase == \E p \in PointIndex \ Members(Hull) : Erase(p)
AnyUpdate ==
    \E p \in PointIndex \ Members(Hull), e \in EdgeIndex : Update(p, e)
AnyPrevEdge == \E p \in PointIndex \ Members(Hull) : PrevEdge(p)
AnyEdge == \E p \in PointIndex \ Members(Hull) : Edge(p)
AnyGet == \E p \in PointIndex : Members(Hull) = {} /\ Get(p)
AnyGetEdge == \E p \in PointIndex : Members(Hull) = {} /\ GetEdge(p)
AnyValues == Members(Hull) = {} /\ Values

NextAny ==
    \/ Next
    \/ AnyInsertFirst
    \/ AnyInsert
    \/ AnyErase
    \/ AnyUpdate
    \/ AnyPrevEdge
    \/ AnyEdge
    \/ AnyGet
    \/ AnyGetEdge
    \/ AnyValues

SpecAny == Init /\ [][NextAny]_vars

Statuses ==
    {"ok", "stopped", "hang:96", "hang:108", "hang:206",
     "panic:66", "panic:78", "panic:108", "panic:130", "panic:134",
     "panic:140", "panic:146", "panic:165", "panic:176", "panic:177",
     "panic:201", "panic:211"}

TypeOK ==
    /\ buckets \in [BucketIndex -> PointIndex \cup {EMPTY}]
    /\ data \in [PointIndex -> Node]
    /\ status \in Statuses
    /\ last \in {"new", "insert_first", "insert", "erase", "update"}

-----------------------------------------------------------------------------
(***************************************************************************)
(* Model of Surface (src/triangulate/src/surface.rs).                      *)
(*                                                                         *)
(* An f64 is a pair <<n, d>>: the rational n / d in lowest terms with      *)
(* d > 0, or <<1, 0>> (INFINITY), <<-1, 0>> (-INFINITY), <<0, 0>> (NaN).   *)
(* Arithmetic is exact: rounding and the sign of zero are left out.  The   *)
(* inputs are chosen so that every square root taken is rational and       *)
(* every angle is a multiple of PI / 4; angles are counted in units of     *)
(* PI, so the f64 PI is <<1, 1>>.  A DVec3 or DVec2 is a tuple of f64; a   *)
(* DMat4 whose last row is (0, 0, 0, 1) is the record [x, y, z, o] of its  *)
(* four columns.                                                           *)
(***************************************************************************)
Abs(n) == IF n < 0 THEN -n ELSE n
Sgn(n) == IF n < 0 THEN -1 ELSE IF n > 0 THEN 1 ELSE 0

RECURSIVE GCD(_, _)
GCD(a, b) == IF b = 0 THEN a ELSE GCD(b, a % b)

\* The f64 n / d.
Q(n, d) ==
    IF d = 0 THEN <<Sgn(n), 0>>
    ELSE LET g == GCD(Abs(n), Abs(d)) IN
         <<(Sgn(d) * n) \div g, Abs(d) \div g>>

\* The f64 of a whole number.
QI(n) == <<n, 1>>

NaN == <<0, 0>>
\* std::f64::INFINITY
INFINITY == <<1, 0>>
\* std::f64::consts::PI, in units of PI.
PI == <<1, 1>>

QNeg(a) == <<-a[1], a[2]>>
QAdd(a, b) ==
    IF a[2] = 0 /\ b[2] = 0
    THEN IF a = b THEN a ELSE NaN
    ELSE Q(a[1] * b[2] + b[1] * a[2], a[2] * b[2])
QSub(a, b) == QAdd(a, QNeg(b))
QMul(a, b) == Q(a[1] * b[1], a[2] * b[2])
QDiv(a, b) ==
    Q(a[1] * b[2] * (IF b[1] < 0 THEN -1 ELSE 1), a[2] * Abs(b[1]))
\* a < b: false when either is NaN.
QLt(a, b) ==
    /\ a # NaN
    /\ b # NaN
    /\ IF a[2] = 0 /\ b[2] = 0 THEN a[1] < b[1]
       ELSE a[1] * b[2] < b[1] * a[2]
\* f64::min and f64::max: the other operand when one is NaN.
QMin(a, b) == IF a = NaN THEN b ELSE IF b = NaN THEN a
              ELSE IF QLt(b, a) THEN b ELSE a
QMax(a, b) == IF a = NaN THEN b ELSE IF b = NaN THEN a
              ELSE IF QLt(a, b) THEN b ELSE a

\* The square root of a whole square.
ISqrt(n) == CHOOSE k \in 0 .. n : k * k = n
\* f64::sqrt of a rational square (NaN for NaN).
Sqrt(a) == IF a[2] = 0 THEN a ELSE Q(ISqrt(a[1]), ISqrt(a[2]))

\* DVec3::new of whole numbers.
V(x, y, z) == <<QI(x), QI(y), QI(z)>>
VAdd(a, b) == [i \in 1 .. Len(a) |-> QAdd(a[i], b[i])]
VSub(a, b) == [i \in 1 .. Len(a) |-> QSub(a[i], b[i])]
VNeg(a) == [i \in 1 .. Len(a) |-> QNeg(a[i])]
\* v * k and v / k for a scalar k
VMul(v, k) == [i \in 1 .. Len(v) |-> QMul(v[i], k)]
VDiv(v, k) == [i \in 1 .. Len(v) |-> QDiv(v[i], k)]
Dot(a, b) ==
    QAdd(QAdd(QMul(a[1], b[1]), QMul(a[2], b[2])), QMul(a[3], b[3]))
Cross(a, b) ==
    <<QSub(QMul(a[2], b[3]), QMul(a[3], b[2])),
      QSub(QMul(a[3], b[1]), QMul(a[1], b[3])),
      QSub(QMul(a[1], b[2]), QMul(a[2], b[1]))>>
\* norm() of a DVec3 and of a DVec2
Norm(v) == Sqrt(Dot(v, v))
Norm2(v) == Sqrt(QAdd(QMul(v[1], v[1]), QMul(v[2], v[2])))
\* normalize(): self / self.norm(), NaN in every component for the zero
\* vector.
Normalize(v) == VDiv(v, Norm(v))

\* DMat4::identity()
identity ==
    [x |-> V(1, 0, 0), y |-> V(0, 1, 0), z |-> V(0, 0, 1), o |-> V(0, 0, 0)]

\* Surface::make_rigid_transform
make_rigid_transform(z_world, x_world, origin_world) ==
    [x |-> x_world,
     y |-> Cross(z_world, x_world),
     z |-> z_world,
     o |-> origin_world]

\* (mat * DVec4::new(p.x, p.y, p.z, 1.0)).xyz()
Transform(mat, p) ==
    VAdd(VAdd(VAdd(VMul(mat.x, p[1]), VMul(mat.y, p[2])),
              VMul(mat.z, p[3])), mat.o)

\* DMat4::try_inverse: None when the determinant is zero, else the
\* cofactors over the determinant (every entry NaN when the determinant is
\* NaN).  Result: [some, mat].
try_inverse(mat) ==
    LET det == Dot(mat.x, Cross(mat.y, mat.z)) IN
    IF det = QI(0) THEN [some |-> FALSE, mat |-> mat]
    ELSE LET r1 == VDiv(Cross(mat.y, mat.z), det)
             r2 == VDiv(Cross(mat.z, mat.x), det)
             r3 == VDiv(Cross(mat.x, mat.y), det)
         IN  [some |-> TRUE,
              mat |-> [x |-> <<r1[1], r2[1], r3[1]>>,
                       y |-> <<r1[2], r2[2], r3[2]>>,
                       z |-> <<r1[3], r2[3], r3[3]>>,
                       o |-> <<QNeg(Dot(r1, mat.o)), QNeg(Dot(r2, mat.o)),
                               QNeg(Dot(r3, mat.o))>>]]

\* f64::atan2 in units of PI, for the directions that are multiples of
\* PI / 4 (r is a norm, never negative).
atan2(r, x) ==
    CASE r = NaN \/ x = NaN -> NaN
      [] r = QI(0) /\ ~QLt(x, QI(0)) -> QI(0)
      [] r = QI(0) /\ QLt(x, QI(0)) -> PI
      [] r # QI(0) /\ x = QI(0) -> Q(1, 2)
      [] r # QI(0) /\ r = x -> Q(1, 4)
      [] r # QI(0) /\ r = QNeg(x) -> Q(3, 4)

\* x < std::f64::EPSILON for a norm x: the least norm above zero that the
\* inputs produce is far above EPSILON.
BelowEpsilon(x) == x = QI(0)

\* Surface::new_sphere
new_sphere(location, radius) ==
    [kind |-> "Sphere", mat |-> identity, mat_i |-> identity,
     location |-> location, radius |-> radius]

\* Surface::new_cylinder, for a frame that try_inverse accepts.
new_cylinder(axis, ref_direction, location, radius) ==
    [kind |-> "Cylinder",
     mat_i |-> try_inverse(
                   make_rigid_transform(axis, ref_direction, location)).mat,
     axis |-> axis, radius |-> radius, location |-> location,
     z_min |-> QI(0), z_max |-> QI(0)]

\* new_plane that stores the reference direction as the normal.
new_plane_normal_ref(axis, ref_direction, location) ==
    [kind |-> "Plane",
     mat_i |-> try_inverse(
                   make_rigid_transform(axis, ref_direction, location)).mat,
     normal |-> ref_direction]

\* Surface::new_plane, for a frame that try_inverse accepts.
new_plane(axis, ref_direction, location) ==
    [kind |-> "Plane",
     mat_i |-> try_inverse(
                   make_rigid_transform(axis, ref_direction, location)).mat,
     normal |-> axis]

\* Surface::BSpline of a sampled patch.  The patch is the part `on` of the
\* plane z = 0 with the parameters (u, v) = (x, y).
BSpline(on) == [kind |-> "BSpline", on |-> on]

\* SampledSurface::uv_from_point: the parameters that reproduce p, or None.
\* Result: [some, uv].
uv_from_point(surf, p) ==
    IF p \in surf.on THEN [some |-> TRUE, uv |-> <<p[1], p[2]>>]
    ELSE [some |-> FALSE, uv |-> <<NaN, NaN>>]

\* surf.surf.surface_derivs::<1>(uv): the first derivatives of the patch,
\* derivs[1][0] along u and derivs[0][1] along v.
surface_derivs(surf, uv) == [du |-> V(1, 0, 0), dv |-> V(0, 1, 0)]

\* Surface::lower with the arguments of atan2 in the other order.
lower_atan2_swapped(s, p) ==
    CASE s.kind = "Plane" ->
           LET q == Transform(s.mat_i, p) IN
           [ok |-> TRUE, uv |-> <<q[1], q[2]>>]
      [] s.kind = "Cylinder" ->
           LET q == Transform(s.mat_i, p)
               z == QDiv(QSub(q[3], s.z_min), QSub(s.z_max, s.z_min))
               scale == QDiv(QI(1), QAdd(QI(1), z))
           IN  [ok |-> TRUE, uv |-> <<QMul(q[1], scale), QMul(q[2], scale)>>]
      [] s.kind = "BSpline" ->
           LET r == uv_from_point(s, p) IN [ok |-> r.some, uv |-> r.uv]
      [] s.kind = "Sphere" ->
           LET q == VDiv(Transform(s.mat_i, p), s.radius)
               yz == <<q[2], q[3]>>
               r == Norm2(yz)
               angle == atan2(q[1], r)
           IN  [ok |-> TRUE,
                uv |-> IF BelowEpsilon(Norm2(yz)) THEN yz
                       ELSE VDiv(VMul(yz, angle), Norm2(yz))]

\* Surface::lower.  Result: [ok, uv]; ok = FALSE is Err(CouldNotLower).
lower(s, p) ==
    CASE s.kind = "Plane" ->
           LET q == Transform(s.mat_i, p) IN
           [ok |-> TRUE, uv |-> <<q[1], q[2]>>]
      [] s.kind = "Cylinder" ->
           LET q == Transform(s.mat_i, p)
               z == QDiv(QSub(q[3], s.z_min), QSub(s.z_max, s.z_min))
               scale == QDiv(QI(1), QAdd(QI(1), z))
           IN  [ok |-> TRUE, uv |-> <<QMul(q[1], scale), QMul(q[2], scale)>>]
      [] s.kind = "BSpline" ->
           LET r == uv_from_point(s, p) IN [ok |-> r.some, uv |-> r.uv]
      [] s.kind = "Sphere" ->
           LET q == VDiv(Transform(s.mat_i, p), s.radius)
               yz == <<q[2], q[3]>>
               r == Norm2(yz)
               angle == atan2(r, q[1])
           IN  [ok |-> TRUE,
                uv |-> IF BelowEpsilon(Norm2(yz)) THEN yz
                       ELSE VDiv(VMul(yz, angle), Norm2(yz))]

\* A position that add_steiner_points made is kept as the term it is
\* computed from, the cosine and sine of a chart angle having no rational
\* value: the one-element tuple <<[mat, radius, uv]>> is
\* mat * (radius * (cos |uv|, sin |uv| * uv / |uv|)).
IsTerm(p) == Len(p) = 1

\* Surface::normal
normal(s, p, uv) ==
    CASE s.kind = "Plane" -> s.normal
      [] s.kind = "Sphere" ->
           IF IsTerm(p) THEN [normalize |-> p, minus |-> s.location]
           ELSE Normalize(VSub(p, s.location))
      [] s.kind = "Cylinder" ->
           LET proj == Dot(VSub(p, s.location), s.axis)
               nearest == VAdd(s.location, VMul(s.axis, proj))
           IN  VNeg(Normalize(VSub(p, nearest)))
      [] s.kind = "BSpline" ->
           LET derivs == surface_derivs(s, uv) IN
           Normalize(Cross(derivs.du, derivs.dv))

\* The running minimum and maximum of the loops of prepare (a = x when
\* x < a) and of add_steiner_points (a = x.min(a)), over the values xs in
\* order, from a start that is not NaN: the least, or greatest, of the
\* start and the values that are not NaN.
FoldMin(start, xs) ==
    LET S == ({xs[i] : i \in DOMAIN xs} \cup {start}) \ {NaN} IN
    CHOOSE a \in S : \A b \in S : ~QLt(b, a)
FoldMax(start, xs) ==
    LET S == ({xs[i] : i \in DOMAIN xs} \cup {start}) \ {NaN} IN
    CHOOSE a \in S : \A b \in S : ~QLt(a, b)

\* The z of mat_i * v.pos for the vertices vs, in order.
TransformedZ(s, vs) == [i \in DOMAIN vs |-> Transform(s.mat_i, vs[i].pos)[3]]

\* prepare whose Cylinder arm leaves out the two assignments of lines
\* 124-125: the scan starts from the z_min and z_max it finds.
prepare_no_reset(s, vs) ==
    IF s.kind = "Cylinder"
    THEN [st |-> "ok",
          s |-> [s EXCEPT
                   !.z_min = FoldMin(s.z_min, TransformedZ(s, vs)),
                   !.z_max = FoldMax(s.z_max, TransformedZ(s, vs))]]
    ELSE [st |-> "ok", s |-> s]

\* let x = v; body: the value v is computed where the statement stands, and
\* the body F sees it as x.
Let(v, F(_)) == CHOOSE r \in {F(x) : x \in {v}} : TRUE

\* Surface::prepare.  Result: [st, s], st = "ok" or the panic.
prepare(s, vs) ==
    CASE s.kind = "Cylinder" ->
           [st |-> "ok",
            s |-> [s EXCEPT
                     !.z_min = FoldMin(INFINITY, TransformedZ(s, vs)),
                     !.z_max = FoldMax(QNeg(INFINITY), TransformedZ(s, vs))]]
      [] s.kind = "Sphere" ->
           IF Len(vs) = 0 THEN [st |-> "panic:137", s |-> s]
           ELSE
           Let(Normalize(VSub(vs[1].pos, s.location)), LAMBDA ref_direction :
           Let(Normalize(VSub(vs[Len(vs)].pos, s.location)), LAMBDA d1 :
           Let(Normalize(Cross(ref_direction, d1)), LAMBDA axis :
           Let(make_rigid_transform(axis, ref_direction, s.location), LAMBDA mat :
           Let(try_inverse(mat), LAMBDA inv :
               IF ~inv.some
               THEN [st |-> "panic:145", s |-> [s EXCEPT !.mat = mat]]
               ELSE [st |-> "ok",
                     s |-> [s EXCEPT !.mat = mat, !.mat_i = inv.mat]])))))
      [] OTHER -> [st |-> "ok", s |-> s]

\* The loop of lower_verts with the normal of a vertex written before the
\* `?` of line 158 looks at the result of lower.
RECURSIVE LowerLoop_norm_first(_, _, _, _, _)
LowerLoop_norm_first(s, vs, i, out, tr) ==
    IF i > Len(vs)
    THEN [surface |-> s, verts |-> vs, trace |-> tr,
          ret |-> [tag |-> "Ok", pts |-> out]]
    ELSE LET proj == lower(s, vs[i].pos)
             tr1 == Append(tr, <<"lower", i>>)
             vs1 == [vs EXCEPT ![i].norm = normal(s, vs[i].pos, proj.uv)]
         IN  IF ~proj.ok
             THEN [surface |-> s, verts |-> vs1, trace |-> tr1,
                   ret |-> [tag |-> "Err", err |-> "CouldNotLower"]]
             ELSE LowerLoop_norm_first(s, vs1, i + 1, Append(out, proj.uv),
                                       tr1)

\* The loop of lower_verts from vertex i on.
RECURSIVE LowerLoop(_, _, _, _, _)
LowerLoop(s, vs, i, out, tr) ==
    IF i > Len(vs)
    THEN [surface |-> s, verts |-> vs, trace |-> tr,
          ret |-> [tag |-> "Ok", pts |-> out]]
    ELSE LET proj == lower(s, vs[i].pos)
             tr1 == Append(tr, <<"lower", i>>)
         IN  IF ~proj.ok
             THEN [surface |-> s, verts |-> vs, trace |-> tr1,
                   ret |-> [tag |-> "Err", err |-> "CouldNotLower"]]
             ELSE LowerLoop(s,
                            [vs EXCEPT ![i].norm = normal(s, vs[i].pos, proj.uv)],
                            i + 1, Append(out, proj.uv), tr1)

\* Surface::lower_verts.  Result: the surface and the vertices it leaves,
\* what it returns ([tag |-> "Ok", pts], [tag |-> "Err", err] or
\* [tag |-> "panic", at]) and the calls of prepare and lower it made.
lower_verts(s, vs) ==
    LET p == prepare(s, vs)
        tr == << <<"prepare", 0>> >>
    IN  IF p.st # "ok"
        THEN [surface |-> p.s, verts |-> vs, trace |-> tr,
              ret |-> [tag |-> "panic", at |-> p.st]]
        ELSE LowerLoop(p.s, vs, 1, <<>>, tr)

\* The bounding box add_steiner_points computes of the points ps.
BoundingBox(ps) ==
    [xmin |-> FoldMin(INFINITY, [i \in DOMAIN ps |-> ps[i][1]]),
     xmax |-> FoldMax(QNeg(INFINITY), [i \in DOMAIN ps |-> ps[i][1]]),
     ymin |-> FoldMin(INFINITY, [i \in DOMAIN ps |-> ps[i][2]]),
     ymax |-> FoldMax(QNeg(INFINITY), [i \in DOMAIN ps |-> ps[i][2]])]

\* const NUM_PTS
NUM_PTS == 6

\* The point p of the grid at column x and row y.
GridPoint(bb, x, y) ==
    LET x_frac == QDiv(QAdd(QI(x), QI(1)), QAdd(QI(NUM_PTS), QI(1)))
        u == QAdd(QMul(x_frac, bb.xmax), QMul(QSub(QI(1), x_frac), bb.xmin))
        y_frac == QDiv(QAdd(QI(y), QI(1)), QAdd(QI(NUM_PTS), QI(1)))
        v == QAdd(QMul(y_frac, bb.ymax), QMul(QSub(QI(1), y_frac), bb.ymin))
    IN  <<u, v>>

\* The grid points in the order the two loops visit them: x outside, y
\* inside.
Grid(bb) ==
    [k \in 1 .. NUM_PTS * NUM_PTS |->
        GridPoint(bb, (k - 1) \div NUM_PTS, (k - 1) % NUM_PTS)]

\* The test of line 188 with >= for >.
Outside_or_on(p) ==
    LET n2 == QAdd(QMul(p[1], p[1]), QMul(p[2], p[2])) IN
    n2 # NaN /\ ~QLt(n2, QMul(PI, PI))

\* p.norm() > PI, compared by the squares.
Outside(p) ==
    QLt(QMul(PI, PI), QAdd(QMul(p[1], p[1]), QMul(p[2], p[2])))

\* The grid points that get past the `continue` of line 189.
Inside(p) == ~Outside(p)

\* The vertex pushed for the grid point p (lines 191-210).
Raised(s, p) ==
    LET pos == <<[mat |-> s.mat, radius |-> s.radius, uv |-> p]>> IN
    [pos |-> pos, norm |-> normal(s, pos, p)]

\* add_steiner_points with pts.push moved up, before the test of line 188.
add_steiner_points_push_early(s, ps, vs) ==
    LET grid == Grid(BoundingBox(ps))
        kept == SelectSeq(grid, Inside)
    IN  IF s.kind = "Sphere"
        THEN [pts |-> ps \o grid,
              verts |-> vs \o [i \in 1 .. Len(kept) |-> Raised(s, kept[i])]]
        ELSE [pts |-> ps, verts |-> vs]

\* Surface::add_steiner_points.  Result: [pts, verts], the two lists it
\* leaves: for every grid point that gets past the test, in the order of
\* the loops, the point pushed on pts and the vertex pushed on verts.
add_steiner_points(s, ps, vs) ==
    LET kept == SelectSeq(Grid(BoundingBox(ps)), Inside) IN
    IF s.kind = "Sphere"
    THEN [pts |-> ps \o kept,
          verts |-> vs \o [i \in 1 .. Len(kept) |-> Raised(s, kept[i])]]
    ELSE [pts |-> ps, verts |-> vs]

\* sign with the Sphere arm true.
sign_sphere_true(s) ==
    CASE s.kind = "Plane" -> FALSE
      [] s.kind = "Sphere" -> TRUE
      [] s.kind = "Cylinder" -> TRUE
      [] s.kind = "BSpline" -> TRUE

\* Surface::sign
sign(s) ==
    CASE s.kind = "Plane" -> FALSE
      [] s.kind = "Sphere" -> FALSE
      [] s.kind = "Cylinder" -> TRUE
      [] s.kind = "BSpline" -> TRUE

\* The largest vertex list handed to lower_verts.
MaxVerts == 3
\* The calls of Surface methods in one run.
MaxCalls == 2

\* The buckets, data, status and last of the hull.
hull_vars == <<buckets, data, status, last>>

SeqsUpTo(S, n) == UNION {[1 .. k -> S] : k \in 0 .. n}

\* A mesh::Vertex as the caller hands it in: its position, and a normal
\* that no method of Surface computes.  (The color is left out: only
\* add_steiner_points writes one, and nothing reads it.)
Vertex(p) == [pos |-> p, norm |-> V(0, 0, 0)]

Units ==
    {V(1, 0, 0), V(0, 1, 0), V(0, 0, 1), V(-1, 0, 0), V(0, -1, 0), V(0, 0, -1)}

\* The surfaces of the runs, and for each the points on it that the
\* vertices are taken from.
Spheres ==
    {new_sphere(V(0, 0, 0), QI(1)), new_sphere(V(0, 0, 0), QI(2)),
     new_sphere(V(1, 0, 0), QI(1))}
Planes ==
    {new_plane(V(0, 0, 1), r, l) :
        r \in {V(1, 0, 0), V(0, 1, 0)}, l \in {V(0, 0, 0), V(1, 1, 0)}}
        \cup {new_plane(V(1, 0, 0), V(0, 1, 0), V(0, 0, 0))}
Cylinders ==
    {new_cylinder(V(0, 0, 1), r, V(0, 0, 0), QI(1)) :
        r \in {V(1, 0, 0), V(0, 1, 0)}}
BSplinePoints == {V(0, 0, 0), V(1, 0, 0), V(0, 1, 0)}
BSplines == {BSpline(on) : on \in SUBSET BSplinePoints}

PointsOn(s) ==
    CASE s.kind = "Sphere" ->
           {VAdd(s.location, VMul(u, s.radius)) : u \in Units}
      [] s.kind = "Plane" -> {V(1, 2, 0), V(1, 2, 5), V(0, 0, 0), V(2, 1, 5)}
      [] s.kind = "Cylinder" ->
           {V(1, 0, 0), V(1, 0, 2), V(0, 1, 1), V(0, 1, 2)}
      [] s.kind = "BSpline" -> BSplinePoints

\* The lists of 2D points a caller holds before any call.
PtsInputs ==
    {<<>>,
     << <<QI(0), QI(0)>> >>,
     << <<QI(1), QI(0)>> >>,
     << <<QI(-1), QI(-1)>>, <<QI(1), QI(1)>> >>,
     << <<Q(1, 2), QI(0)>>, <<QI(0), Q(1, 2)>> >>}

\* A program that holds a Surface, a vertex list and a list of 2D points,
\* and a hull it never touches.  The caller comes with vertices to lower
\* and no 2D points yet, or with 2D points and no vertices.
InitSurface ==
    /\ surface \in Spheres \cup Planes \cup Cylinders \cup BSplines
    /\ \E ps \in SeqsUpTo(PointsOn(surface), MaxVerts) :
          verts = [i \in 1 .. Len(ps) |-> Vertex(ps[i])]
    /\ pts \in PtsInputs
    /\ verts = <<>> \/ pts = <<>>
    /\ ret = [tag |-> "new"]
    /\ trace = <<>>
    /\ calls = <<>>
    /\ buckets = new([p \in PointIndex |-> 0]).buckets
    /\ data = new([p \in PointIndex |-> 0]).data
    /\ status = "ok"
    /\ last = "new"
    /\ NoExpress

\* A call is made only by a running program, and lower_verts before
\* add_steiner_points: the vertices that add_steiner_points appends are
\* not lowered again.
Running == ret.tag # "panic" /\ Len(calls) < MaxCalls

\* The caller keeps the list that lower_verts returns as its pts.
LowerVerts ==
    /\ Running
    /\ \A i \in 1 .. Len(calls) : calls[i] # "add_steiner_points"
    /\ \E r \in {lower_verts(surface, verts)} :
          /\ surface' = r.surface
          /\ verts' = r.verts
          /\ ret' = r.ret
          /\ trace' = r.trace
          /\ pts' = IF r.ret.tag = "Ok" THEN r.ret.pts ELSE pts
    /\ calls' = Append(calls, "lower_verts")
    /\ UNCHANGED <<hull_vars, express_vars>>

AddSteinerPoints ==
    /\ Running
    /\ \E r \in {add_steiner_points(surface, pts, verts)} :
          /\ pts' = r.pts
          /\ verts' = r.verts
    /\ ret' = [tag |-> "unit"]
    /\ calls' = Append(calls, "add_steiner_points")
    /\ UNCHANGED <<surface, trace, hull_vars, express_vars>>

NextSurface ==
    \/ LowerVerts
    \/ AddSteinerPoints

SpecSurface == InitSurface /\ [][NextSurface]_vars

-----------------------------------------------------------------------------
(***************************************************************************)
(* Model of strip_flatten (src/express/src/lib.rs).                        *)
(*                                                                         *)
(* A byte is its ASCII code; a slice or Vec of bytes is a sequence, and    *)
(* the indices i, j of the source count from 0.                            *)
(***************************************************************************)
\* b'(', b')', b'*', b'-', b'\n'
LPAREN == 40
RPAREN == 41
STAR == 42
DASH == 45
NEWLINE == 10
\* b'A', b'Z', b'a': the upper-case letters and the first lower-case one.
UPPER_A == 65
UPPER_Z == 90
LOWER_A == 97

\* u8::to_ascii_lowercase
to_ascii_lowercase(c) ==
    IF c \in UPPER_A .. UPPER_Z THEN c + (LOWER_A - UPPER_A) ELSE c

\* data[i]
At(bytes, i) == bytes[i + 1]

\* memchr_iter(c, &data[from..]): the offsets j of the bytes c in the
\* slice, which the iterator yields in increasing order.
memchr_iter(c, bytes, from) ==
    {j \in 0 .. (Len(bytes) - from - 1) : At(bytes, from + j) = c}

\* The least number of a set of naturals that is not empty.
Least(S) == CHOOSE j \in S : \A k \in S : j <= k

\* memchr(c, &data[from..]).unwrap_or(0)
memchr_or_0(c, bytes, from) ==
    LET found == memchr_iter(c, bytes, from) IN
    IF found = {} THEN 0 ELSE Least(found)

\* The index i that the arm for b'(' leaves when data[i + 1] is b'*': the
\* first b')' after i + 1 whose preceding byte is b'*', or i when there is
\* none.
BlockCommentEnd(bytes, i) ==
    LET closing == {j \in memchr_iter(RPAREN, bytes, i + 2) :
                       At(bytes, i + j + 1) = STAR}
    IN  IF closing = {} THEN i ELSE i + Least(closing) + 2

\* The while loop of strip_flatten from index i, with out built so far.
RECURSIVE StripLoop(_, _, _)
StripLoop(bytes, i, out) ==
    IF ~(i < Len(bytes)) THEN out
    ELSE IF At(bytes, i) = LPAREN
         THEN IF i + 1 < Len(bytes) /\ At(bytes, i + 1) = STAR
              THEN StripLoop(bytes, BlockCommentEnd(bytes, i) + 1, out)
              ELSE StripLoop(bytes, i + 1, out)
    ELSE IF At(bytes, i) = DASH /\ i + 1 < Len(bytes) /\ At(bytes, i + 1) = DASH
         THEN StripLoop(bytes, i + memchr_or_0(NEWLINE, bytes, i + 2) + 3 + 1,
                        out)
    ELSE StripLoop(bytes, i + 1, Append(out, to_ascii_lowercase(At(bytes, i))))

\* strip_flatten
strip_flatten(bytes) == StripLoop(bytes, 0, <<>>)

\* The longest file read.
MaxLen == 5

\* The bytes of the files: the four that comments are made of, the line
\* break, an upper-case and a lower-case letter.
Bytes == {LPAREN, RPAREN, STAR, DASH, NEWLINE, UPPER_A, LOWER_A}

\* A program that holds the bytes of a file, a hull it never touches and
\* no Surface.
InitExpress ==
    /\ input \in SeqsUpTo(Bytes, MaxLen)
    /\ flat = <<>>
    /\ NoSurface
    /\ buckets = new([p \in PointIndex |-> 0]).buckets
    /\ data = new([p \in PointIndex |-> 0]).data
    /\ status = "ok"
    /\ last = "new"

\* The call strip_flatten(&input), its result kept in flat.
StripFlatten ==
    /\ flat = <<>>
    /\ flat' = <<strip_flatten(input)>>
    /\ UNCHANGED <<input, hull_vars, surface_vars>>

NextExpress == StripFlatten

SpecExpress == InitExpress /\ [][NextExpress]_vars

-----------------------------------------------------------------------------
\* Helpers of the properties.

\* The node k steps after m along next (EMPTY once the walk leaves the array).
RECURSIVE NextN(_, _, _)
NextN(h, m, k) ==
    IF k = 0 \/ ~InBounds(m) THEN m ELSE NextN(h, h.data[m].next, k - 1)

\* The node k steps before m along prev.
RECURSIVE PrevN(_, _, _)
PrevN(h, m, k) ==
    IF k = 0 \/ ~InBounds(m) THEN m ELSE PrevN(h, h.data[m].prev, k - 1)

\* The members form one ring: from every member, next visits every member
\* once and is back after exactly the member count, and prev walks the same
\* ring backwards.
OneRing(h) ==
    LET mem == Members(h)
        n == Cardinality(mem)
    IN  \A m \in mem :
            /\ {NextN(h, m, k) : k \in 0 .. (n - 1)} = mem
            /\ NextN(h, m, n) = m
            /\ \A k \in 0 .. n : PrevN(h, NextN(h, m, k), k) = m
            /\ h.data[m].prev \in mem
            /\ h.data[h.data[m].prev].next = m
            /\ h.data[h.data[m].next].prev = m

\* The members a with angle(a) > angle(next(a)).
Descents(h) ==
    {a \in Members(h) :
        /\ InBounds(h.data[a].next)
        /\ h.data[a].angle > h.data[h.data[a].next].angle}

\* p is reached from node `from` by following next through nodes of bucket b.
RECURSIVE ReachInBucket(_, _, _, _, _)
ReachInBucket(h, from, p, b, fuel) ==
    IF from = p THEN TRUE
    ELSE IF ~InBounds(from) \/ fuel = 0 THEN FALSE
    ELSE IF bucket(h, from) # b THEN FALSE
    ELSE ReachInBucket(h, h.data[from].next, p, b, fuel - 1)

\* Some point that is not a member carries an edge: it was erased.
SomeErased(h) ==
    \E p \in PointIndex \ Members(h) : h.data[p].edge # DefaultEdge

-----------------------------------------------------------------------------
\* C1 (ring integrity): whenever a call has returned, following next from
\* any member visits every member exactly once and is back at the start
\* after exactly member-count steps, and prev is the exact reverse
\* (prev(next(m)) = m and next(prev(m)) = m).
RingIntegrity == status = "ok" => OneRing(Hull)

\* A ring of at least three members after some point has been erased.
RingIntegrityWitness ==
    /\ status = "ok"
    /\ Cardinality(Members(Hull)) >= 3
    /\ SomeErased(Hull)

\* C2 (angular order): whenever a call has returned and the ring has at
\* least two members, angle(a) <= angle(next(a)) for every member a except
\* at one edge, the wrap-around.
AngularOrder ==
    (status = "ok" /\ Cardinality(Members(Hull)) >= 2)
        => Cardinality(Descents(Hull)) <= 1

\* C3 (bucket consistency): whenever a call has returned, for every member p
\* the slot of p's bucket is not EMPTY and holds p or a node from which p is
\* reached along next through nodes of p's bucket.
BucketConsistency ==
    status = "ok" =>
        \A p \in Members(Hull) :
            LET b == bucket(Hull, p) IN
            /\ buckets[b] # EMPTY
            /\ ReachInBucket(Hull, buckets[b], p, b, NumPts)

\* C4 (bucket emptiness): whenever a call has returned, a slot is EMPTY
\* exactly when no member maps to it, and a slot that is not EMPTY names a
\* member.
BucketEmptiness ==
    status = "ok" =>
        \A b \in BucketIndex :
            /\ buckets[b] = EMPTY
                 <=> ~(\E p \in Members(Hull) : bucket(Hull, p) = b)
            /\ buckets[b] # EMPTY => buckets[b] \in Members(Hull)

\* The hull after the step.
HullNext == [buckets |-> buckets', data |-> data', status |-> status']

\* The prev/next links of every node.
Links(h) == [q \in PointIndex |-> <<h.data[q].prev, h.data[q].next>>]

LookupResult ==
    (status = "ok" /\ Members(Hull) # {}) =>
        \A p \in PointIndex \ Members(Hull) :
            LET g == get(Hull, p)
                below == {m \in Members(Hull) : data[m].angle < data[p].angle}
                pool == IF below # {} THEN below ELSE Members(Hull)
            IN  /\ g.st = "ok"
                /\ g.prev \in pool
                /\ \A m \in pool : data[m].angle <= data[g.prev].angle
                /\ g.next = data[g.prev].next

\* C7 (edge update): update(p, e2) of a member p returns, makes p's edge
\* e2 and changes no prev/next link, no angle, no other node's edge and no
\* bucket slot, so that get(q) is the same as before for every q.
EdgeUpdate ==
    [][\A p \in Members(Hull), e2 \in EdgeIndex :
         Update(p, e2) =>
            /\ status' = "ok"
            /\ data'[p].edge = e2
            /\ buckets' = buckets
            /\ \A q \in PointIndex :
                  /\ data'[q].prev = data[q].prev
                  /\ data'[q].next = data[q].next
                  /\ data'[q].angle = data[q].angle
                  /\ q # p => data'[q].edge = data[q].edge
                  /\ get(HullNext, q) = get(Hull, q)]_vars

\* The state after an update, in a ring of two or more members whose edges
\* are not all the same.
EdgeUpdateWitness ==
    /\ status = "ok"
    /\ last = "update"
    /\ \E p, q \in Members(Hull) : data[p].edge # data[q].edge

\* C8 (slot reuse): erase(p) of a member p leaves p with prev and next
\* EMPTY, and p can be made a member again at once, by insert(p, e) when
\* members remain and by insert_first(p, e) when p was the last one: the
\* call returns and p is a member of one well-formed ring.
SlotReuse ==
    [][\A p \in Members(Hull) :
         (Erase(p) /\ status' = "ok") =>
            /\ data'[p].prev = EMPTY
            /\ data'[p].next = EMPTY
            /\ \A e \in EdgeIndex :
                  LET h2 == IF Members(HullNext) = {}
                            THEN insert_first(HullNext, p, e)
                            ELSE insert(HullNext, p, e)
                  IN  /\ h2.status = "ok"
                      /\ p \in Members(h2)
                      /\ OneRing(h2)]_vars

\* C9 (insert_first on a hull with members): the call never returns, in
\* whatever state p's own bucket is; it panics.
InsertFirstOnMembersFails ==
    [][\A p \in PointIndex, e \in EdgeIndex :
         (Members(Hull) # {} /\ status = "ok" /\ last' = "insert_first"
          /\ Set(Stopped(insert_first(Hull, p, e))))
            => status' = "panic:66"]_vars

\* C10 (insert of a member): insert(p, e) of a point that is a member
\* panics at the assert! of line 146 and leaves every node and every bucket
\* slot as it was.
InsertOfMemberFails ==
    [][\A p \in Members(Hull), e \in EdgeIndex :
         Insert(p, e) =>
            /\ status' = "panic:146"
            /\ data' = data
            /\ buckets' = buckets]_vars

\* The program stopped at the assert! of insert, in a ring of two or more.
InsertOfMemberFailsWitness ==
    /\ status = "panic:146"
    /\ last = "insert"
    /\ Cardinality(Members(Hull)) >= 2

\* C11 (erase of a non-member): erase(p) of a point whose next is EMPTY
\* never returns: it panics at the index expression of line 176, before
\* any write, so that every node and every bucket slot is as it was.
EraseOfNonMemberFails ==
    [][\A p \in PointIndex \ Members(Hull) :
         Erase(p) =>
            /\ status' = "panic:176"
            /\ Links(HullNext) = Links(Hull)
            /\ data' = data
            /\ buckets' = buckets]_vars

\* The program stopped in erase of a non-member, with members in the ring
\* and a point that was erased before.
EraseOfNonMemberFailsWitness ==
    /\ status = "panic:176"
    /\ last = "erase"
    /\ Members(Hull) # {}
    /\ SomeErased(Hull)

\* The statuses of a call that panicked.
Panics == {st \in Statuses : st \notin {"ok", "stopped", "hang:96", "hang:108", "hang:206"}}

\* C12 (membership guards): in every state the program reaches, update(p, e),
\* edge(p) and prev_edge(p) return when p is a member and panic when p is
\* not (never inserted, or erased before); an update that panics leaves
\* p's stored edge as it was.
MembershipGuards ==
    status = "ok" =>
        \A p \in PointIndex, e \in EdgeIndex :
            IF p \in Members(Hull)
            THEN /\ update(Hull, p, e).status = "ok"
                 /\ edge(Hull, p).st = "ok"
                 /\ prev_edge(Hull, p).st = "ok"
            ELSE /\ update(Hull, p, e).status \in Panics
                 /\ update(Hull, p, e).data[p].edge = data[p].edge
                 /\ edge(Hull, p).st \in Panics
                 /\ prev_edge(Hull, p).st \in Panics

\* The program stopped in update of a point that was erased before, with
\* members in the ring.
MembershipGuardsWitness ==
    /\ status = "panic:78"
    /\ last = "update"
    /\ Members(Hull) # {}
    /\ SomeErased(Hull)

\* The edges of the k members met from m along next.
EdgesFrom(h, m, k) == [i \in 1 .. k |-> h.data[NextN(h, m, i - 1)].edge]

\* C13 (values, count and content): on a hull with k >= 1 members, values()
\* ends after yielding exactly k edges, the stored edge of every member
\* once, in next order from some member.
ValuesYieldsMembers ==
    (status = "ok" /\ Members(Hull) # {}) =>
        LET v == values(Hull)
            k == Cardinality(Members(Hull))
        IN  /\ v.st = "ok"
            /\ Len(v.out) = k
            /\ \E m \in Members(Hull) :
                  /\ {NextN(Hull, m, i) : i \in 0 .. (k - 1)} = Members(Hull)
                  /\ v.out = EdgesFrom(Hull, m, k)

\* The point values() starts from: the head of the lowest-indexed filled
\* bucket (EMPTY when no bucket is filled).
ValuesStart(h) ==
    LET filled == {b \in BucketIndex : h.buckets[b] # EMPTY} IN
    IF filled = {} THEN EMPTY
    ELSE h.buckets[CHOOSE b \in filled : \A c \in filled : b <= c]

\* C14 (values, angle order): values() yields the members' edges in
\* non-decreasing angle order with no wrap-around inside the sequence: it
\* starts at the head of the lowest-indexed filled bucket, which is a
\* member of the smallest angle, and the angle never decreases along the
\* nodes it yields.
ValuesAngleOrder ==
    (status = "ok" /\ Members(Hull) # {}) =>
        LET v == values(Hull)
            s == ValuesStart(Hull)
            k == Len(v.out)
        IN  /\ v.st = "ok"
            /\ s \in Members(Hull)
            /\ \A m \in Members(Hull) : data[s].angle <= data[m].angle
            /\ v.out = EdgesFrom(Hull, s, k)
            /\ \A i \in 0 .. (k - 2) :
                  data[NextN(Hull, s, i)].angle
                      <= data[NextN(Hull, s, i + 1)].angle

-----------------------------------------------------------------------------
\* The last call was of method m.
LastCall(m) == calls # <<>> /\ calls[Len(calls)] = m

\* The calls lower_verts makes when it lowers the vertices 1 .. n.
LowerTrace(n) == << <<"prepare", 0>> >> \o [i \in 1 .. n |-> <<"lower", i>>]

\* C15 (lower_verts): lower_verts calls prepare once, before the first
\* lower, then lower on the vertices in input order.  If every vertex
\* lowers it returns Ok with len(vertices) points, point i the projection
\* of vertex i; otherwise it returns Err(CouldNotLower), no list, having
\* lowered the vertices up to the first that fails and none after.
LowerVertsContract ==
    LastCall("lower_verts") =>
        LET n == Len(verts)
            fails == {i \in 1 .. n : ~lower(surface, verts[i].pos).ok}
        IN  IF fails = {}
            THEN /\ ret.tag = "Ok"
                 /\ Len(ret.pts) = n
                 /\ \A i \in 1 .. n :
                       ret.pts[i] = lower(surface, verts[i].pos).uv
                 /\ trace = LowerTrace(n)
            ELSE LET k == CHOOSE i \in fails : \A j \in fails : i <= j IN
                 /\ ret = [tag |-> "Err", err |-> "CouldNotLower"]
                 /\ trace = LowerTrace(k)

\* C16 (lock-step): add_steiner_points appends as many entries to the
\* list of 2D points as to the list of vertices and leaves the entries
\* that were there as they were; on a Plane, a Cylinder or a BSpline it
\* appends nothing.
SteinerLockStep ==
    [][AddSteinerPoints =>
         /\ Len(pts') >= Len(pts)
         /\ Len(pts') - Len(pts) = Len(verts') - Len(verts)
         /\ SubSeq(pts', 1, Len(pts)) = pts
         /\ SubSeq(verts', 1, Len(verts)) = verts
         /\ surface.kind # "Sphere" => (pts' = pts /\ verts' = verts)]_vars

\* add_steiner_points has appended to two lists of different lengths.
SteinerLockStepWitness ==
    /\ LastCall("add_steiner_points")
    /\ surface.kind = "Sphere"
    /\ Len(pts) > NUM_PTS
    /\ Len(pts) # Len(verts)

\* The grid points of the bounding box of ps that lie farther than PI
\* from the chart origin.
FarGridPoints(ps) ==
    LET bb == BoundingBox(ps)
    IN  {g \in (0 .. (NUM_PTS - 1)) \X (0 .. (NUM_PTS - 1)) :
            LET p == GridPoint(bb, g[1], g[2]) IN
            QLt(QI(1), QAdd(QMul(p[1], p[1]), QMul(p[2], p[2])))}

\* C17 (count): on a Sphere add_steiner_points appends 36 samples less
\* the grid points farther than PI from the chart origin: at most 36, and
\* fewer than 36 when there is such a grid point.
SteinerCount ==
    [][(AddSteinerPoints /\ surface.kind = "Sphere") =>
         LET far == Cardinality(FarGridPoints(pts))
             added == Len(pts') - Len(pts)
         IN  /\ added = NUM_PTS * NUM_PTS - far
             /\ added <= NUM_PTS * NUM_PTS
             /\ far > 0 => added < NUM_PTS * NUM_PTS]_vars

\* add_steiner_points on a Sphere has skipped some grid points and kept
\* others.
SteinerCountWitness ==
    /\ LastCall("add_steiner_points")
    /\ Len(calls) = 1
    /\ surface.kind = "Sphere"
    /\ Len(pts) > 2
    /\ Len(pts) < 2 + NUM_PTS * NUM_PTS

\* C18 (sign): sign() is true for Cylinder and BSpline and false for
\* Plane and Sphere, and no call of lower_verts (hence of prepare) or of
\* add_steiner_points changes it.
SignByVariant ==
    [][/\ sign(surface') = sign(surface)
       /\ sign(surface') = (surface'.kind \in {"Cylinder", "BSpline"})
       /\ sign(surface) = (surface.kind \in {"Cylinder", "BSpline"})]_vars

\* lower_verts has prepared a Sphere and changed its frame.
SignByVariantWitness ==
    /\ LastCall("lower_verts")
    /\ surface.kind = "Sphere"
    /\ surface.mat # identity
    /\ ret.tag = "Ok"

\* lower_verts has returned on a unit sphere whose prepared frame has the
\* axis (0, 0, 1).
UnitSpherePrepared ==
    /\ LastCall("lower_verts")
    /\ ret.tag = "Ok"
    /\ surface.kind = "Sphere"
    /\ surface.radius = QI(1)
    /\ surface.mat.z = V(0, 0, 1)

\* C19 as stated (sphere pole): on a unit sphere whose prepared frame has
\* the axis (0, 0, 1), the point (0, 0, 1) lowers to the chart origin
\* (0, 0) and its normal is (0, 0, 1).
SpherePoleAtOrigin ==
    UnitSpherePrepared =>
        \A i \in 1 .. Len(verts) :
            verts[i].pos = V(0, 0, 1) =>
                /\ pts[i] = <<QI(0), QI(0)>>
                /\ verts[i].norm = V(0, 0, 1)

\* C19 amended: on a unit sphere whose prepared frame has the axis
\* (0, 0, 1), the point (0, 0, 1) lowers to (0, PI / 2), a quarter turn
\* from the chart origin, and its normal is (0, 0, 1); the point that
\* lowers to the chart origin (0, 0) is the first vertex, which gives the
\* frame its reference direction.
SpherePole ==
    UnitSpherePrepared =>
        /\ pts[1] = <<QI(0), QI(0)>>
        /\ \A i \in 1 .. Len(verts) :
              verts[i].pos = V(0, 0, 1) =>
                  /\ pts[i] = <<QI(0), Q(1, 2)>>
                  /\ verts[i].norm = V(0, 0, 1)

\* The point (0, 0, 1) was lowered on such a sphere.
SpherePoleWitness ==
    /\ UnitSpherePrepared
    /\ \E i \in 1 .. Len(verts) : verts[i].pos = V(0, 0, 1)

\* The points and parameters the plane scenario is tried on.
ScenarioCoords == {0, 1, 2, 5}

\* lower maps every (x, y, z) to (x, y) and normal is (0, 0, 1), on the
\* surface and in what lower_verts returned.
LowersToXY ==
    /\ \A x, y, z \in ScenarioCoords :
          /\ lower(surface, V(x, y, z)) = [ok |-> TRUE, uv |-> <<QI(x), QI(y)>>]
          /\ normal(surface, V(x, y, z), <<QI(x), QI(y)>>) = V(0, 0, 1)
          /\ normal(surface, V(x, y, z), <<QI(z), QI(x)>>) = V(0, 0, 1)
    /\ (LastCall("lower_verts") /\ ret.tag = "Ok") =>
          \A i \in 1 .. Len(verts) :
              /\ pts[i] = <<verts[i].pos[1], verts[i].pos[2]>>
              /\ verts[i].norm = V(0, 0, 1)

\* C20 as stated (plane scenario): on a plane with normal (0, 0, 1)
\* through the origin, lower((x, y, z)) = (x, y) for every z and normal
\* returns (0, 0, 1) for every point and uv.
PlaneScenarioAnyFrame ==
    (/\ surface.kind = "Plane"
     /\ surface.normal = V(0, 0, 1)
     /\ Transform(surface.mat_i, V(0, 0, 0))[3] = QI(0))
        => LowersToXY

\* C20 amended: on the plane new_plane((0, 0, 1), (1, 0, 0), (0, 0, 0)),
\* whose reference direction is the x axis and whose location is the
\* origin, lower((x, y, z)) = (x, y) for every z and normal returns
\* (0, 0, 1) for every point and uv.
PlaneScenario ==
    surface = new_plane(V(0, 0, 1), V(1, 0, 0), V(0, 0, 0)) => LowersToXY

\* lower_verts has lowered (1, 2, 5) on that plane.
PlaneScenarioWitness ==
    /\ surface = new_plane(V(0, 0, 1), V(1, 0, 0), V(0, 0, 0))
    /\ LastCall("lower_verts")
    /\ ret.tag = "Ok"
    /\ \E i \in 1 .. Len(verts) :
          verts[i].pos = V(1, 2, 5) /\ pts[i] = <<QI(1), QI(2)>>

-----------------------------------------------------------------------------
\* The indices of the bytes outside every comment, in order, from index i
\* on.  A block comment runs from a "(*" to the end of the first "*)" that
\* begins after it; a line comment runs from a "--" to the end of the line,
\* or to the end of the input when no line break follows.  The line break
\* that ends a line comment is counted outside the comment when
\* with_break is TRUE and inside it otherwise.
RECURSIVE OutsideComments(_, _, _)
OutsideComments(bytes, i, with_break) ==
    LET n == Len(bytes)
        closing == {k \in (i + 2) .. (n - 2) :
                       At(bytes, k) = STAR /\ At(bytes, k + 1) = RPAREN}
        breaks == {k \in (i + 2) .. (n - 1) : At(bytes, k) = NEWLINE}
    IN  IF i >= n THEN <<>>
        ELSE IF i + 1 < n /\ At(bytes, i) = LPAREN /\ At(bytes, i + 1) = STAR
                /\ closing # {}
             THEN OutsideComments(bytes, Least(closing) + 2, with_break)
        ELSE IF i + 1 < n /\ At(bytes, i) = DASH /\ At(bytes, i + 1) = DASH
             THEN IF breaks = {} THEN <<>>
                  ELSE IF with_break
                       THEN OutsideComments(bytes, Least(breaks), with_break)
                       ELSE OutsideComments(bytes, Least(breaks) + 1,
                                            with_break)
        ELSE <<i>> \o OutsideComments(bytes, i + 1, with_break)

\* The bytes at the indices idx, in ASCII lower case.
Lowered(bytes, idx) ==
    [k \in 1 .. Len(idx) |-> to_ascii_lowercase(At(bytes, idx[k]))]

\* a[i..] is what is left of b[j..] when some of its entries are dropped.
RECURSIVE IsSubSeqFrom(_, _, _, _)
IsSubSeqFrom(a, i, b, j) ==
    IF i > Len(a) THEN TRUE
    ELSE IF j > Len(b) THEN FALSE
    ELSE IF a[i] = b[j] THEN IsSubSeqFrom(a, i + 1, b, j + 1)
    ELSE IsSubSeqFrom(a, i, b, j + 1)

\* The entries of a are entries of b, in the same relative order.
IsSubSeq(a, b) == IsSubSeqFrom(a, 1, b, 1)

\* C21 (everything outside comments is kept): every input byte that is
\* not part of a block comment or of a line comment appears in the output
\* of strip_flatten, in ASCII lower case and in its original relative
\* order; a '(' that starts no comment and the first byte of the line after
\* a line comment are among them.
StripKeepsOutside ==
    flat # <<>> =>
        IsSubSeq(Lowered(input, OutsideComments(input, 0, FALSE)), flat[1])

\* C22 (comments are removed): the output of strip_flatten has no byte
\* from inside a block comment and none of a line comment, from its "--"
\* to the end of the line or of the input: it is made of bytes outside the
\* comments only, in their order.
StripRemovesComments ==
    flat # <<>> =>
        IsSubSeq(flat[1], Lowered(input, OutsideComments(input, 0, TRUE)))

-----------------------------------------------------------------------------
\* C23 (insert needs only a non-member): in every state the program
\* reaches by Hull::new and calls within the preconditions, the hull with
\* no members included, insert(p, e) of a non-member p returns, makes p a
\* member and sets edge(p) = e.
InsertOfNonMemberReturns ==
    status = "ok" =>
        \A p \in PointIndex \ Members(Hull), e \in EdgeIndex :
            LET h1 == insert(Hull, p, e) IN
            /\ h1.status = "ok"
            /\ p \in Members(h1)
            /\ h1.data[p].edge = e

\* p, linked in by insert, is the new earliest node of its bucket: it
\* stands immediately before the previous head and its angle is not above
\* the head's (a p of a higher angle whose next is the head was put at the
\* end of a ring that lies in one bucket).
SplicedBeforeHead(h1, p, head) ==
    /\ InBounds(head)
    /\ h1.data[p].next = head
    /\ h1.data[p].angle <= h1.data[head].angle

\* C24 (bucket head after insert): after an insert(p, e) that returns, the
\* slot of p's bucket holds p when the slot was EMPTY or when p was spliced
\* immediately before the previous head as the new earliest member of the
\* bucket (also when the two angles are equal), and the previous head
\* otherwise; no other slot changes.
BucketHeadAfterInsert ==
    status = "ok" =>
        \A p \in PointIndex \ Members(Hull), e \in EdgeIndex :
            LET h1 == insert(Hull, p, e)
                b == bucket(Hull, p)
                head == buckets[b]
            IN  h1.status = "ok" =>
                  /\ h1.buckets[b] =
                        IF head = EMPTY \/ SplicedBeforeHead(h1, p, head)
                        THEN p ELSE head
                  /\ \A c \in BucketIndex \ {b} : h1.buckets[c] = buckets[c]

\* C25 (bucket head after erase): after erase(p) of a member p that was
\* the head of its bucket b, the slot of b is EMPTY when no remaining
\* member maps to b (so when p was the only member, where next = p) and is
\* the former next of p when that node is a remaining member that maps to
\* b; when p was not the head, the slot is unchanged.
BucketHeadAfterErase ==
    status = "ok" =>
        \A p \in Members(Hull) :
            LET h1 == erase(Hull, p)
                b == bucket(Hull, p)
                next == data[p].next
            IN  /\ h1.status = "ok"
                /\ buckets[b] # p => h1.buckets[b] = buckets[b]
                /\ (buckets[b] = p
                    /\ ~(\E m \in Members(h1) : bucket(h1, m) = b))
                      => h1.buckets[b] = EMPTY
                /\ (buckets[b] = p /\ next \in Members(h1)
                    /\ bucket(h1, next) = b)
                      => h1.buckets[b] = next

\* The head of the first filled bucket met from bucket b upward, with
\* wrap-around modulo N (EMPTY when every bucket is EMPTY).
FirstFilledFrom(h, b) ==
    LET ks == {k \in 0 .. (N - 1) : h.buckets[(b + k) % N] # EMPTY} IN
    IF ks = {} THEN EMPTY
    ELSE h.buckets[(b + (CHOOSE k \in ks : \A j \in ks : k <= j)) % N]

\* C26 (get with an empty target bucket): on a hull with a member, when
\* the slot of p's bucket is EMPTY, get(p) returns (prev(h), h) with h the
\* head of the first filled bucket met scanning upward from p's bucket
\* with wrap-around, and h and prev(h) are members.
GetFromEmptyBucket ==
    (status = "ok" /\ Members(Hull) # {}) =>
        \A p \in PointIndex :
            buckets[bucket(Hull, p)] = EMPTY =>
                LET g == get(Hull, p)
                    h == FirstFilledFrom(Hull, bucket(Hull, p))
                IN  /\ g.st = "ok"
                    /\ h \in Members(Hull)
                    /\ g.next = h
                    /\ g.prev = data[h].prev
                    /\ g.prev \in Members(Hull)

\* The in-bucket walk of get(p) went on from the head it started at and
\* came back to it.
FullWrap(h, p) ==
    LET b == bucket(h, p)
        first == h.buckets[b]
    IN  /\ InBounds(first)
        /\ h.data[first].angle < h.data[p].angle
        /\ bucket(h, first) = b
        /\ get(h, p) = [st |-> "ok", prev |-> h.data[first].prev,
                        next |-> first]

\* C27 (full wrap): whenever the in-bucket walk of get(p) comes back to
\* the bucket head it started from, every member lies in p's bucket and
\* has an angle strictly below angle(p), and get(p) returns (the last
\* member of the ring, the bucket head).
GetFullWrap ==
    status = "ok" =>
        \A p \in PointIndex :
            FullWrap(Hull, p) =>
                LET first == buckets[bucket(Hull, p)] IN
                /\ first \in Members(Hull)
                /\ \A m \in Members(Hull) :
                      /\ bucket(Hull, m) = bucket(Hull, p)
                      /\ data[m].angle < data[p].angle
                /\ get(Hull, p).next = first
                /\ get(Hull, p).prev \in Members(Hull)
                /\ data[get(Hull, p).prev].next = first
                /\ \A m \in Members(Hull) :
                      data[m].angle <= data[get(Hull, p).prev].angle

\* C28 (get returns members): in every state the program reaches where
\* the hull has a member, get(p) returns for every point p of the array,
\* and both points it returns are members (neither is EMPTY).
GetReturnsMembers ==
    (status = "ok" /\ Members(Hull) # {}) =>
        \A p \in PointIndex :
            LET g == get(Hull, p) IN
            /\ g.st = "ok"
            /\ g.prev \in Members(Hull)
            /\ g.next \in Members(Hull)

\* get(p) has wrapped around a ring of two or more members.
GetFullWrapWitness ==
    /\ status = "ok"
    /\ Cardinality(Members(Hull)) >= 2
    /\ \E p \in PointIndex \ Members(Hull) : FullWrap(Hull, p)

\* C29 (insert_first on a fresh hull): Hull::new leaves no point a member
\* and every bucket EMPTY; insert_first(p, e) on that hull returns and
\* makes p the only member, with next(p) = p and prev(p) = p, the slot of
\* p's bucket p and edge(p) = e, and leaves every other slot EMPTY and
\* every other node as Hull::new made it.
InsertFirstOnFresh ==
    (status = "ok" /\ last = "new") =>
        /\ Members(Hull) = {}
        /\ \A b \in BucketIndex : buckets[b] = EMPTY
        /\ \A q \in PointIndex : data[q].prev = EMPTY /\ data[q].next = EMPTY
        /\ \A p \in PointIndex, e \in EdgeIndex :
              LET h1 == insert_first(Hull, p, e) IN
              /\ h1.status = "ok"
              /\ Members(h1) = {p}
              /\ h1.data[p].next = p
              /\ h1.data[p].prev = p
              /\ h1.data[p].edge = e
              /\ h1.buckets[bucket(h1, p)] = p
              /\ \A b \in BucketIndex \ {bucket(h1, p)} : h1.buckets[b] = EMPTY
              /\ \A q \in PointIndex \ {p} : h1.data[q] = data[q]

\* insert_first has returned on a fresh hull, for a point that is not the
\* first of the array and lies in the last bucket.
InsertFirstOnFreshWitness ==
    /\ status = "ok"
    /\ last = "insert_first"
    /\ ~SomeErased(Hull)
    /\ \E p \in PointIndex \ {0} :
          /\ Members(Hull) = {p}
          /\ bucket(Hull, p) = N - 1

\* C30 (angles are never written): no call of insert_first, insert,
\* erase, update, get, get_edge, edge, prev_edge or values, whether it
\* returns or not, changes the angle of a node, so that every point keeps
\* its bucket.
AnglesNeverChange ==
    [][\A q \in PointIndex :
         /\ data'[q].angle = data[q].angle
         /\ bucket(HullNext, q) = bucket(Hull, q)]_vars

\* An insert has returned on a hull where a point was erased before, in a
\* ring whose members do not all have the same angle.
AnglesNeverChangeWitness ==
    /\ status = "ok"
    /\ last = "insert"
    /\ SomeErased(Hull)
    /\ \E p, q \in Members(Hull) : data[p].angle # data[q].angle

-----------------------------------------------------------------------------
\* The vertex lists of up to n vertices on the surface s.
VertexLists(s, n) ==
    {[i \in 1 .. Len(ps) |-> Vertex(ps[i])] : ps \in SeqsUpTo(PointsOn(s), n)}

\* The z of mat_i * v.pos of the vertices vs, as a set.
ZsOf(s, vs) == {Transform(s.mat_i, vs[i].pos)[3] : i \in 1 .. Len(vs)}

\* C31 (prepare): on a Cylinder, in whatever state earlier calls of
\* prepare left it, prepare on a vertex list that is not empty makes z_min
\* the least and z_max the greatest transformed z of exactly those
\* vertices, the same values as prepare on that list gives on the cylinder
\* as it was constructed, and changes nothing else; on a Plane and on a
\* BSpline prepare changes nothing.  (The lists tried are those of one
\* and two vertices, on a surface that earlier calls prepared on up to
\* MaxVerts vertices.)
PrepareExtents ==
    /\ surface.kind = "Cylinder" =>
          \A vs \in VertexLists(surface, 2) \ {<<>>} :
              \A r \in {prepare(surface, vs)}, zs \in {ZsOf(surface, vs)} :
                  /\ r.st = "ok"
                  /\ r.s.z_min \in zs
                  /\ r.s.z_max \in zs
                  /\ \A z \in zs : ~QLt(z, r.s.z_min) /\ ~QLt(r.s.z_max, z)
                  /\ r.s = prepare([surface EXCEPT !.z_min = QI(0),
                                                   !.z_max = QI(0)], vs).s
                  /\ r.s = [surface EXCEPT !.z_min = r.s.z_min,
                                           !.z_max = r.s.z_max]
    /\ surface.kind \in {"Plane", "BSpline"} =>
          \A vs \in VertexLists(surface, 2) :
              prepare(surface, vs) = [st |-> "ok", s |-> surface]

\* lower_verts has prepared a Cylinder on vertices of different heights,
\* none of them at the z_min = z_max = 0 of the constructor's frame alone.
PrepareExtentsWitness ==
    /\ LastCall("lower_verts")
    /\ surface.kind = "Cylinder"
    /\ QLt(QI(0), surface.z_min)
    /\ QLt(surface.z_min, surface.z_max)

-----------------------------------------------------------------------------
\* C32 (membership encoding): whenever a call has returned, every node
\* has prev = EMPTY exactly when it has next = EMPTY, so that the tests on
\* next (update, edge, insert) and on prev (prev_edge) agree on who is a
\* member, and the prev and the next of a member are members.
MembershipEncoding ==
    status = "ok" =>
        \A q \in PointIndex :
            /\ data[q].prev = EMPTY <=> data[q].next = EMPTY
            /\ q \in Members(Hull) =>
                  /\ data[q].prev \in Members(Hull)
                  /\ data[q].next \in Members(Hull)

\* An erase has returned and left members, and the erased point has both
\* links EMPTY.
MembershipEncodingWitness ==
    /\ status = "ok"
    /\ last = "erase"
    /\ Cardinality(Members(Hull)) >= 2
    /\ \E q \in PointIndex :
          /\ data[q].edge # DefaultEdge
          /\ data[q].prev = EMPTY
          /\ data[q].next = EMPTY

\* The points that were made members at some time: insert_first and insert
\* store an edge of the caller, never EdgeIndex::default().
EverInserted(h) == {q \in PointIndex : h.data[q].edge # DefaultEdge}

\* The points that were ever made members have pairwise distinct angles.
DistinctAngles(h) ==
    \A q, r \in EverInserted(h) :
        q # r => h.data[q].angle # h.data[r].angle

\* C33 (lookup of a member): in every state reached by calls within the
\* preconditions on points of pairwise distinct angles, get(p) of a member
\* p returns (prev(p), p), so that get_edge(p), prev_edge(p) and
\* edge(prev(p)) are the same edge.
LookupOfMember ==
    (status = "ok" /\ DistinctAngles(Hull)) =>
        \A p \in Members(Hull) :
            /\ get(Hull, p) = [st |-> "ok", prev |-> data[p].prev, next |-> p]
            /\ get_edge(Hull, p).st = "ok"
            /\ prev_edge(Hull, p) = get_edge(Hull, p)
            /\ InBounds(data[p].prev)
            /\ edge(Hull, data[p].prev) = get_edge(Hull, p)

\* Members of pairwise distinct angles, two of them in one bucket with
\* different edges, after a point of yet another angle was erased.
LookupOfMemberWitness ==
    /\ status = "ok"
    /\ DistinctAngles(Hull)
    /\ Cardinality(Members(Hull)) >= 2
    /\ Members(Hull) # EverInserted(Hull)
    /\ \E p, q \in Members(Hull) :
          /\ p # q
          /\ bucket(Hull, p) = bucket(Hull, q)
          /\ data[p].edge # data[q].edge

-----------------------------------------------------------------------------
\* Node q is in h1 as it is in h, but for the fields named in may.
SameBut(h, h1, q, may) ==
    /\ h1.data[q].angle = h.data[q].angle
    /\ "edge" \notin may => h1.data[q].edge = h.data[q].edge
    /\ "prev" \notin may => h1.data[q].prev = h.data[q].prev
    /\ "next" \notin may => h1.data[q].next = h.data[q].next

\* The fields of node q that insert(p, e) may write when get(p) returned g.
InsertMayWrite(p, g, q) ==
    (IF q = p THEN {"edge", "prev", "next"} ELSE {})
        \cup (IF q = g.prev THEN {"next"} ELSE {})
        \cup (IF q = g.next THEN {"prev"} ELSE {})

\* The fields of node q that erase(p) may write in the hull h.
EraseMayWrite(h, p, q) ==
    (IF q = p THEN {"prev", "next"} ELSE {})
        \cup (IF q = h.data[p].prev THEN {"next"} ELSE {})
        \cup (IF q = h.data[p].next THEN {"prev"} ELSE {})

\* C34 (frame of insert and erase): insert(p, e) of a non-member writes
\* only the edge, prev and next of p, the next of the prev that get
\* returned, the prev of the next that get returned and the slot of p's
\* bucket; erase(p) of a member writes only the prev and next of p (to
\* EMPTY), the links of p's two neighbours and the slot of p's bucket, and
\* no node's edge: p keeps its edge.  Every other node and slot is as it
\* was.
FrameOfInsertAndErase ==
    status = "ok" =>
        /\ \A p \in PointIndex \ Members(Hull), e \in EdgeIndex :
              LET h1 == insert(Hull, p, e)
                  g == get(Hull, p)
              IN  /\ \A q \in PointIndex :
                        SameBut(Hull, h1, q, InsertMayWrite(p, g, q))
                  /\ \A c \in BucketIndex \ {bucket(Hull, p)} :
                        h1.buckets[c] = buckets[c]
        /\ \A p \in Members(Hull) :
              LET h1 == erase(Hull, p) IN
              /\ h1.status = "ok"
              /\ h1.data[p].prev = EMPTY
              /\ h1.data[p].next = EMPTY
              /\ \A q \in PointIndex :
                    SameBut(Hull, h1, q, EraseMayWrite(Hull, p, q))
              /\ \A c \in BucketIndex \ {bucket(Hull, p)} :
                    h1.buckets[c] = buckets[c]

\* An erase has returned on a ring of three or more and the erased point
\* still carries the edge it had.
FrameOfInsertAndEraseWitness ==
    /\ status = "ok"
    /\ last = "erase"
    /\ Cardinality(Members(Hull)) >= 2
    /\ \E q \in PointIndex \ Members(Hull), m \in Members(Hull) :
          /\ data[q].edge # DefaultEdge
          /\ data[q].edge # data[m].edge

-----------------------------------------------------------------------------
\* The index of the first vertex of vs that lower fails on, on the surface
\* s (Len(vs) + 1 when there is none).
FirstFailure(s, vs) ==
    LET fails == {i \in 1 .. Len(vs) : ~lower(s, vs[i].pos).ok} IN
    IF fails = {} THEN Len(vs) + 1 ELSE Least(fails)

\* C35 (lower_verts is not atomic): when lower_verts fails at vertex k,
\* prepare has been applied to the surface and called before any lower,
\* the vertices before k have the normal of the surface at their position
\* for their normal, the vertices from k on keep the normal they had, and
\* no position changes.
LowerVertsNotAtomic ==
    [][(LowerVerts /\ ret'.tag = "Err") =>
         LET k == FirstFailure(surface', verts) IN
         /\ k <= Len(verts)
         /\ surface' = prepare(surface, verts).s
         /\ trace' = LowerTrace(k)
         /\ Len(verts') = Len(verts)
         /\ \A i \in 1 .. Len(verts) :
               /\ verts'[i].pos = verts[i].pos
               /\ i < k =>
                     verts'[i].norm =
                         normal(surface', verts[i].pos,
                                lower(surface', verts[i].pos).uv)
               /\ i >= k => verts'[i].norm = verts[i].norm]_vars

\* lower_verts has failed after it lowered a vertex: the list holds a
\* normal that was written and one that was not.
LowerVertsNotAtomicWitness ==
    /\ LastCall("lower_verts")
    /\ Len(calls) = 1
    /\ ret.tag = "Err"
    /\ \E i, j \in 1 .. Len(verts) :
          /\ i < j
          /\ verts[i].norm = V(0, 0, 1)
          /\ verts[j].norm = V(0, 0, 0)

====
